---- MODULE Spec2Model ----
(***************************************************************************)
(* Media Database: the record store MDBHandler (src/mdb_handler.py), a     *)
(* sqlite3 file with three tables (media, genres, media_types), as a       *)
(* state machine.  The variables media, genres and media_types are the     *)
(* COMMITTED contents of the file: what every connection to it reads.      *)
(* Every handler commits (or rolls back) before it returns, so one action  *)
(* is one handler call, except delete_genre / delete_media_type, which     *)
(* commit twice (convert_entries commits on its own) and are two steps.    *)
(* The streaming reads are generators: one step per row the caller pulls.  *)
(* The Presentation Shell (src/mdb_main.py) is modelled by the handlers of *)
(* its windows that call the store.                                        *)
(***************************************************************************)
EXTENDS Integers, Sequences, FiniteSets, TLC

VARIABLES media, genres, media_types, pc, pre, last, ret,
          tables, cursor, gen, conns, current_entry, dialog

vars == <<media, genres, media_types, pc, pre, last, ret,
          tables, cursor, gen, conns, current_entry, dialog>>

\* tables: the tables the file has.  cursor: the rows of the statement last
\* executed on self.cursor that no fetch has taken yet (while there are any
\* the statement is open and holds its read lock on the file).  gen: the
\* generator the caller is iterating.  conns: the windows whose MDBHandler
\* has its connection open.  current_entry: the row selected in the main
\* window (a variable of the shell: no handler of the store reads or writes
\* it).  dialog: the title of the message box the shell showed last.
rest == <<tables, gen, conns>>

\* The variables of the shell, which no handler of the store touches.
shell == <<current_entry, dialog>>

\* self.database of the main window: the file and the state of its handler.
database == <<media, genres, media_types, pc, pre, last, ret,
              tables, cursor, gen, conns>>

\* ------------------------------------------------------------------ bounds

\* Largest row id a table is driven to (ids are assigned max(id)+1).
MaxId == 2

Ids == 1..MaxId

\* The default of the parameter `count` of the streaming reads, the number of
\* rows one fetchmany takes: 1000 in the source, scaled down here so that a
\* table of MaxId rows is more than one chunk.
DefaultCount == 1

\* The chunk sizes a caller passes as `count`.
Counts == 1..MaxId

\* A caller makes another read between two pulls of a generator only while
\* the generator has yielded fewer rows than this.
MaxYield == 3

\* ------------------------------------------------------------- the values

DeletedGenre == "-DELETED GENRE-"

DeletedMediaType == "-DELETED MEDIA TYPE-"

\* Field tuples handed to add_entry / update_entry (title, description,
\* age_rating, genre, season, disc_count, media_type, play_time, notes).
\* These two share their title and differ in every other field.
EntryInputs ==
  { [title |-> "Dune", description |-> "old", age_rating |-> "PG",
     genre |-> "Action", season |-> 0, disc_count |-> 1,
     media_type |-> "Blu-ray", play_time |-> 0, notes |-> ""],
    [title |-> "Dune", description |-> "new", age_rating |-> "U",
     genre |-> "Sci-Fi", season |-> 1, disc_count |-> 2,
     media_type |-> "DVD", play_time |-> 155, notes |-> "100%"] }

\* A third field tuple, with a title of its own, for the reads.
OtherEntry ==
  [title |-> "Arrival", description |-> "", age_rating |-> "12",
   genre |-> "Sci-Fi", season |-> 0, disc_count |-> 1,
   media_type |-> "Blu-ray", play_time |-> 116, notes |-> "sci-fi"]

\* A fourth, with an apostrophe in its title.
QuoteEntry ==
  [title |-> "O'Brien", description |-> "", age_rating |-> "PG",
   genre |-> "Action", season |-> 0, disc_count |-> 1,
   media_type |-> "DVD", play_time |-> 0, notes |-> ""]

\* Field tuples handed to add_genre / update_genre (genre, description,
\* examples).  Nothing stops a user from naming a genre like the placeholder.
GenreInputs ==
  { [genre |-> "Action", description |-> "fast", examples |-> "Dune"],
    [genre |-> DeletedGenre, description |-> "", examples |-> ""] }

\* Field tuples handed to add_media_type / update_media_type (type).
MediaTypeInputs == { [type |-> "DVD"] }

GenreNames == { g.genre : g \in GenreInputs }

MediaTypeNames == { t.type : t \in MediaTypeInputs }

Titles == { e.title : e \in EntryInputs \cup {OtherEntry} }

\* The columns of each table other than id (create_tables).
Columns(table) ==
  CASE table = "media" ->
         {"title", "description", "age_rating", "genre", "season",
          "disc_count", "media_type", "play_time", "notes"}
    [] table = "genres" -> {"genre", "description", "examples"}
    [] table = "media_types" -> {"type"}

\* ------------------------------------------------------------ SQL helpers

Max(S) == CHOOSE x \in S : \A y \in S : y <= x

Min(S) == CHOOSE x \in S : \A y \in S : x <= y

EmptyTable == [i \in {} |-> 0]

\* INTEGER PRIMARY KEY given NULL: one more than the largest id in use.
NextId(t) == IF DOMAIN t = {} THEN 1 ELSE Max(DOMAIN t) + 1

\* INSERT INTO t VALUES (NULL, ...)
InsertRow(t, row) == [i \in DOMAIN t \cup {NextId(t)} |-> IF i \in DOMAIN t THEN t[i] ELSE row]

\* DELETE FROM t, the WHERE clause lost.
DeleteRowAll(t, id) == [i \in {} |-> t[i]]

\* DELETE FROM t WHERE rowid = id
DeleteRow(t, id) == [i \in DOMAIN t \ {id} |-> t[i]]

\* INSERT OR REPLACE in place of UPDATE: a row appears when no row has the id.
UpdateRowUpsert(t, id, row) == [i \in DOMAIN t \cup {id} |-> IF i = id THEN row ELSE t[i]]

\* UPDATE t SET <every column>, the WHERE clause lost.
UpdateRowAll(t, id, row) == [i \in DOMAIN t |-> row]

\* UPDATE t SET <every column> WHERE id = id (no row has it: no row changes)
UpdateRow(t, id, row) == [i \in DOMAIN t |-> IF i = id THEN row ELSE t[i]]

\* The rewrite stopping after the first row it finds (LIMIT 1).
ConvertRowsFirst(t, column, old_value, new_value) ==
  [i \in DOMAIN t |-> IF t[i][column] = old_value
                         /\ \A j \in DOMAIN t : t[j][column] = old_value => i <= j
                      THEN [t[i] EXCEPT ![column] = new_value]
                      ELSE t[i]]

\* A cascading delete of the entries in place of the rewrite.
ConvertRowsCascade(t, column, old_value, new_value) ==
  [i \in { j \in DOMAIN t : t[j][column] # old_value } |-> t[i]]

\* The rewrite with its WHERE clause lost: every entry gets new_value.
ConvertRowsAll(t, column, old_value, new_value) ==
  [i \in DOMAIN t |-> [t[i] EXCEPT ![column] = new_value]]

\* UPDATE media SET column = new_value WHERE column = old_value
ConvertRows(t, column, old_value, new_value) ==
  [i \in DOMAIN t |-> IF t[i][column] = old_value
                      THEN [t[i] EXCEPT ![column] = new_value]
                      ELSE t[i]]

\* A row as a cursor returns it: the id with the columns.
RowOf(t, i) == [id |-> i] @@ t[i]

Table(name) ==
  CASE name = "media" -> media
    [] name = "genres" -> genres
    [] name = "media_types" -> media_types

Store == <<media, genres, media_types>>

\* ------------------------------------------------------- values of pc etc.

NoSnap == <<>>

None == [kind |-> "none"]

Raised == [kind |-> "raised"]

\* last: the latest handler call, its arguments, and whether a statement of it
\* has failed (an exception the handler caught and logged).
Done(op, arg, failed) == [op |-> op, arg |-> arg, failed |-> failed]

\* The three tables of create_tables.
TableNames == {"media", "genres", "media_types"}

\* The windows of the shell; each constructs an MDBHandler of its own.
Windows == {"MDB", "MDBEditGenres", "MDBEditMediaTypes", "MDBEntriesConverter"}

\* No generator is being iterated.
NoGen == [state |-> "none"]

\* The state after MDB.__init__: the handler of the main window has run
\* create_tables, and the three sub-windows have been constructed.
Init ==
  /\ media = EmptyTable
  /\ genres = EmptyTable
  /\ media_types = EmptyTable
  /\ pc = "idle"
  /\ pre = NoSnap
  /\ last = Done("init", <<>>, FALSE)
  /\ ret = None
  /\ tables = TableNames
  /\ cursor = <<>>
  /\ gen = NoGen
  /\ conns = Windows
  /\ current_entry = None
  /\ dialog = "none"

\* The state after MDBHandler(database) on a file that does not exist yet:
\* sqlite3.connect has created it, empty; create_tables has not run.
InitFile ==
  /\ media = EmptyTable
  /\ genres = EmptyTable
  /\ media_types = EmptyTable
  /\ pc = "idle"
  /\ pre = NoSnap
  /\ last = Done("init", <<>>, FALSE)
  /\ ret = None
  /\ tables = {}
  /\ cursor = <<>>
  /\ gen = NoGen
  /\ conns = {"MDB"}
  /\ current_entry = None
  /\ dialog = "none"

\* ------------------------------------------------- schema and connection

\* DROP TABLE and CREATE TABLE: the rows of a table that was there are lost.
CreateTableDrop(name, t) == EmptyTable

\* CREATE TABLE IF NOT EXISTS name: a table that is there keeps its rows.
CreateTable(name, t) == IF name \in tables THEN t ELSE EmptyTable

\* The CREATE statements of create_tables, in their order.
CreateOrder == <<"media_types", "genres", "media">>

\* create_tables: k of its statements run (all of them: none fails); a CREATE
\* TABLE opens no transaction, so the tables made before a failure stay.
create_tables(k) ==
  /\ pc = "idle"
  /\ LET made == { CreateOrder[j] : j \in 1..k }
     IN /\ tables' = tables \cup made
        /\ media' = IF "media" \in made THEN CreateTable("media", media) ELSE media
        /\ genres' = IF "genres" \in made THEN CreateTable("genres", genres) ELSE genres
        /\ media_types' = IF "media_types" \in made
                          THEN CreateTable("media_types", media_types) ELSE media_types
  /\ last' = Done("create_tables", <<>>, k < Len(CreateOrder))
  /\ ret' = None
  /\ cursor' = <<>>
  /\ UNCHANGED <<pc, pre, gen, conns>>

\* close: the cursor and the connection of the handler of window w are closed.
close(w) ==
  /\ conns' = conns \ {w}
  /\ cursor' = <<>>
  /\ last' = Done("close", w, FALSE)
  /\ ret' = None
  /\ UNCHANGED <<media, genres, media_types, pre, tables, gen>>

\* ---------------------------------------------------------- media table

\* add_entry: one INSERT in one transaction; a failure of the statement is
\* rolled back, logged and swallowed.
add_entry(e, fault) ==
  /\ pc = "idle"
  /\ NextId(media) <= MaxId
  /\ media' = IF fault THEN media ELSE InsertRow(media, e)
  /\ last' = Done("add_entry", e, fault)
  /\ ret' = None
  /\ UNCHANGED <<genres, media_types, pc, pre>>
  /\ cursor' = <<>>
  /\ UNCHANGED rest

\* What a caller passes as `entry`: a row-like tuple (entry[0] the id, entry[1]
\* the title or name), or something that cannot be subscripted (a bare id, None).
RowArg(id, name) == [kind |-> "row", id |-> id, name |-> name]

IntArg(id) == [kind |-> "int", id |-> id]

NoneArg == [kind |-> "none"]

\* delete_entry: the debug line reads entry[1] before the try block, so an
\* argument that is not subscriptable raises out of the call; otherwise one
\* DELETE by rowid = entry[0].
delete_entry(entry, fault) ==
  /\ pc = "idle"
  /\ IF entry.kind # "row"
     THEN /\ ret' = Raised
          /\ last' = Done("delete_entry", entry, FALSE)
          /\ UNCHANGED <<media, cursor>>
     ELSE /\ ret' = None
          /\ last' = Done("delete_entry", entry, fault)
          /\ media' = IF fault THEN media ELSE DeleteRow(media, entry.id)
          /\ cursor' = <<>>
  /\ UNCHANGED <<genres, media_types, pc, pre>>
  /\ UNCHANGED rest

\* update_entry: UPDATE {table} SET title=..., ..., notes=... WHERE id=rowid.
\* On a table without those columns the statement is an SQL error.
update_entry(table, rowid, e, fault) ==
  /\ pc = "idle"
  /\ LET bad == fault \/ table # "media"
     IN /\ media' = IF bad THEN media ELSE UpdateRow(media, rowid, e)
        /\ last' = Done("update_entry", [table |-> table, rowid |-> rowid], bad)
  /\ ret' = None
  /\ UNCHANGED <<genres, media_types, pc, pre>>
  /\ cursor' = <<>>
  /\ UNCHANGED rest

\* ---------------------------------------------------------- genres table

add_genre(g, fault) ==
  /\ pc = "idle"
  /\ NextId(genres) <= MaxId
  /\ genres' = IF fault THEN genres ELSE InsertRow(genres, g)
  /\ last' = Done("add_genre", g, fault)
  /\ ret' = None
  /\ UNCHANGED <<media, media_types, pc, pre>>
  /\ cursor' = <<>>
  /\ UNCHANGED rest

update_genre(rowid, g, fault) ==
  /\ pc = "idle"
  /\ genres' = IF fault THEN genres ELSE UpdateRow(genres, rowid, g)
  /\ last' = Done("update_genre", [rowid |-> rowid], fault)
  /\ ret' = None
  /\ UNCHANGED <<media, media_types, pc, pre>>
  /\ cursor' = <<>>
  /\ UNCHANGED rest

\* convert_entries: one UPDATE of media and a commit, in a try block of its
\* own: a failure is rolled back, logged and NOT passed on to the caller.
convert_entries(column, old_value, new_value, fault) ==
  /\ media' = IF fault THEN media ELSE ConvertRows(media, column, old_value, new_value)
  /\ cursor' = <<>>

\* convert_entries called on its own.
convert_entries_call(column, old_value, new_value, fault) ==
  /\ pc = "idle"
  /\ convert_entries(column, old_value, new_value, fault)
  /\ last' = Done("convert_entries",
                  [column |-> column, old_value |-> old_value, new_value |-> new_value],
                  fault)
  /\ ret' = None
  /\ UNCHANGED <<genres, media_types, pc, pre>>
  /\ UNCHANGED rest

\* delete_genre, lines 137-143: entry[1] is read (None raises into the
\* handler's own except), convert_entries rewrites the entries and commits.
delete_genre_convert(entry, fault) ==
  /\ pc = "idle"
  /\ IF entry.kind # "row"
     THEN /\ last' = Done("delete_genre", entry, TRUE)
          /\ UNCHANGED <<media, pc, pre, cursor>>
     ELSE /\ convert_entries("genre", entry.name, DeletedGenre, fault)
          /\ pc' = "delete_genre"
          /\ pre' = Store
          /\ last' = Done("delete_genre", entry, fault)
  /\ ret' = None
  /\ UNCHANGED <<genres, media_types>>
  /\ UNCHANGED rest

\* delete_genre, lines 144-149: DELETE FROM genres by rowid = entry[0] and a
\* second commit; a failure here rolls back this statement only.
delete_genre_delete(fault) ==
  /\ pc = "delete_genre"
  /\ genres' = IF fault THEN genres ELSE DeleteRow(genres, last.arg.id)
  /\ last' = Done("delete_genre", last.arg, last.failed \/ fault)
  /\ pc' = "idle"
  /\ pre' = NoSnap
  /\ ret' = None
  /\ UNCHANGED <<media, media_types>>
  /\ cursor' = <<>>
  /\ UNCHANGED rest

\* ------------------------------------------------------ media_types table

add_media_type(t, fault) ==
  /\ pc = "idle"
  /\ NextId(media_types) <= MaxId
  /\ media_types' = IF fault THEN media_types ELSE InsertRow(media_types, t)
  /\ last' = Done("add_media_type", t, fault)
  /\ ret' = None
  /\ UNCHANGED <<media, genres, pc, pre>>
  /\ cursor' = <<>>
  /\ UNCHANGED rest

update_media_type(rowid, t, fault) ==
  /\ pc = "idle"
  /\ media_types' = IF fault THEN media_types ELSE UpdateRow(media_types, rowid, t)
  /\ last' = Done("update_media_type", [rowid |-> rowid], fault)
  /\ ret' = None
  /\ UNCHANGED <<media, genres, pc, pre>>
  /\ cursor' = <<>>
  /\ UNCHANGED rest

delete_media_type_convert(entry, fault) ==
  /\ pc = "idle"
  /\ IF entry.kind # "row"
     THEN /\ last' = Done("delete_media_type", entry, TRUE)
          /\ UNCHANGED <<media, pc, pre, cursor>>
     ELSE /\ convert_entries("media_type", entry.name, DeletedMediaType, fault)
          /\ pc' = "delete_media_type"
          /\ pre' = Store
          /\ last' = Done("delete_media_type", entry, fault)
  /\ ret' = None
  /\ UNCHANGED <<genres, media_types>>
  /\ UNCHANGED rest

delete_media_type_delete(fault) ==
  /\ pc = "delete_media_type"
  /\ media_types' = IF fault THEN media_types ELSE DeleteRow(media_types, last.arg.id)
  /\ last' = Done("delete_media_type", last.arg, last.failed \/ fault)
  /\ pc' = "idle"
  /\ pre' = NoSnap
  /\ ret' = None
  /\ UNCHANGED <<media, genres>>
  /\ cursor' = <<>>
  /\ UNCHANGED rest

\* ------------------------------------------------------------- the reads

Row(r) == [kind |-> "row", val |-> r]

Bool(b) == [kind |-> "bool", val |-> b]

Rows(rs) == [kind |-> "rows", val |-> rs]

\* WHERE column = value
Matching(t, column, value) == { i \in DOMAIN t : t[i][column] = value }

RECURSIVE InIdOrder(_)
\* The ids of S as a table scan meets them: in ascending rowid.
InIdOrder(S) == IF S = {} THEN <<>> ELSE <<Min(S)>> \o InIdOrder(S \ {Min(S)})

\* The rows of a result, in the order of ids.
RowsOf(t, order) == [k \in 1..Len(order) |-> RowOf(t, order[k])]

\* The last row of the result in place of the first.
FetchOneLast(t, ids) == IF ids = {} THEN None ELSE Row(RowOf(t, Max(ids)))

\* cursor.fetchone(): the first row of the result, or None
FetchOne(t, ids) == IF ids = {} THEN None ELSE Row(RowOf(t, Min(ids)))

\* select_one_entry: SELECT * FROM {table} WHERE {column}=(:value), fetchone;
\* a column the table does not have is an SQL error: logged, None returned.
select_one_entry(table, column, value, fault) ==
  /\ pc = "idle"
  /\ LET bad == fault \/ column \notin Columns(table)
         ids == IF bad THEN {} ELSE Matching(Table(table), column, value)
     IN /\ ret' = IF bad THEN None ELSE FetchOne(Table(table), ids)
        /\ cursor' = IF ids = {} THEN <<>>
                     ELSE Tail(RowsOf(Table(table), InIdOrder(ids)))
        /\ last' = Done("select_one_entry",
                        [table |-> table, column |-> column, value |-> value], bad)
  /\ UNCHANGED <<media, genres, media_types, pc, pre>>
  /\ UNCHANGED rest

\* The `return False` lost: the call falls off its end and returns None.
ExistsResultNone(ids) == IF ids # {} THEN Bool(TRUE) ELSE None

\* `if self.cursor.fetchall(): return True` / `return False`
ExistsResult(ids) == IF ids # {} THEN Bool(TRUE) ELSE Bool(FALSE)

\* check_if_entry_exists: SELECT * FROM {table} WHERE {column}=(:entry).
check_if_entry_exists(table, column, entry, fault) ==
  /\ pc = "idle"
  /\ LET bad == fault \/ column \notin Columns(table)
     IN /\ ret' = IF bad THEN None
                  ELSE ExistsResult(Matching(Table(table), column, entry))
        /\ last' = Done("check_if_entry_exists",
                        [table |-> table, column |-> column, value |-> entry], bad)
  /\ UNCHANGED <<media, genres, media_types, pc, pre>>
  /\ cursor' = <<>>
  /\ UNCHANGED rest

\* The characters of the text values of the model.
Chars(s) ==
  CASE s = "" -> <<>>
    [] s = "%" -> <<"%">>
    [] s = "_" -> <<"_">>
    [] s = "x" -> <<"x">>
    [] s = "dune" -> <<"d", "u", "n", "e">>
    [] s = "SCI" -> <<"S", "C", "I">>
    [] s = "Dune" -> <<"D", "u", "n", "e">>
    [] s = "Arrival" -> <<"A", "r", "r", "i", "v", "a", "l">>
    [] s = "old" -> <<"o", "l", "d">>
    [] s = "new" -> <<"n", "e", "w">>
    [] s = "Action" -> <<"A", "c", "t", "i", "o", "n">>
    [] s = "Sci-Fi" -> <<"S", "c", "i", "-", "F", "i">>
    [] s = "sci-fi" -> <<"s", "c", "i", "-", "f", "i">>
    [] s = "100%" -> <<"1", "0", "0", "%">>
    [] s = "O'Brien" -> <<"O", "'", "B", "r", "i", "e", "n">>
    [] s = "Blu-ray" -> <<"B", "l", "u", "-", "r", "a", "y">>
    [] s = "DVD" -> <<"D", "V", "D">>
    [] s = DeletedGenre ->
         <<"-", "D", "E", "L", "E", "T", "E", "D", " ", "G", "E", "N", "R", "E", "-">>
    [] s = DeletedMediaType ->
         <<"-", "D", "E", "L", "E", "T", "E", "D", " ", "M", "E", "D", "I", "A", " ",
           "T", "Y", "P", "E", "-">>

\* SQLite's LIKE folds the case of the ASCII letters.
Lower(c) ==
  CASE c = "A" -> "a" [] c = "C" -> "c" [] c = "D" -> "d" [] c = "E" -> "e"
    [] c = "F" -> "f" [] c = "G" -> "g" [] c = "I" -> "i" [] c = "L" -> "l"
    [] c = "N" -> "n" [] c = "R" -> "r" [] c = "S" -> "s" [] c = "T" -> "t"
    [] c = "M" -> "m" [] c = "P" -> "p" [] c = "Y" -> "y"
    [] OTHER -> c

RECURSIVE Like(_, _)
\* text LIKE pattern: in the pattern % stands for any run of characters and
\* _ for any one character; there is no ESCAPE clause.
Like(pattern, text) ==
  IF pattern = <<>> THEN text = <<>>
  ELSE IF Head(pattern) = "%"
       THEN Like(Tail(pattern), text) \/ (text # <<>> /\ Like(pattern, Tail(text)))
       ELSE /\ text # <<>>
            /\ Head(pattern) = "_" \/ Lower(Head(pattern)) = Lower(Head(text))
            /\ Like(Tail(pattern), Tail(text))

\* {"query": f"%{query}%"}: the query text is pasted between two wildcards.
SearchPattern(query) == <<"%">> \o Chars(query) \o <<"%">>

\* The columns search looks in when it is given none.
SearchColumns == {"title", "description", "genre", "notes"}

NoColumn == "None"

\* The rows the SELECT of search finds.
SearchIds(query, column) ==
  { i \in DOMAIN media :
      \E c \in (IF column = NoColumn THEN SearchColumns ELSE {column}) :
        Like(SearchPattern(query), Chars(media[i][c])) }

\* search: the generator, run to its end by the caller: every row of the
\* SELECT, fetchmany by fetchmany.
search(query, column, fault) ==
  /\ pc = "idle"
  /\ LET bad == fault \/ (column # NoColumn /\ column \notin Columns("media"))
     IN /\ ret' = IF bad THEN Rows(<<>>)
                  ELSE Rows(RowsOf(media, InIdOrder(SearchIds(query, column))))
        /\ last' = Done("search", [query |-> query, column |-> column], bad)
  /\ UNCHANGED <<media, genres, media_types, pc, pre>>
  /\ cursor' = <<>>
  /\ UNCHANGED rest

\* ------------------------------------------------------ streaming reads

\* The characters, in the order of their codes.
AsciiOrder ==
  <<" ", "%", "'", "-", "0", "1", "2", "3", "4", "5", "6", "7", "8", "9",
    "A", "B", "C", "D", "E", "F", "G", "H", "I", "J", "K", "L", "M", "N", "O",
    "P", "Q", "R", "S", "T", "U", "V", "W", "X", "Y", "Z", "_",
    "a", "b", "c", "d", "e", "f", "g", "h", "i", "j", "k", "l", "m", "n", "o",
    "p", "q", "r", "s", "t", "u", "v", "w", "x", "y", "z">>

Code(c) == CHOOSE k \in DOMAIN AsciiOrder : AsciiOrder[k] = c

RECURSIVE SeqLeq(_, _)
\* The BINARY collation: memcmp, the shorter text first on a common prefix.
SeqLeq(a, b) ==
  IF a = <<>> THEN TRUE
  ELSE IF b = <<>> THEN FALSE
  ELSE IF Head(a) = Head(b) THEN SeqLeq(Tail(a), Tail(b))
  ELSE Code(Head(a)) < Code(Head(b))

Leq(x, y) == SeqLeq(Chars(x), Chars(y))

\* The statement without its ORDER BY: the rows come as the table scan meets
\* them.
OrderByRowid(t, ids, column) == InIdOrder(ids)

RECURSIVE OrderBy(_, _, _)
\* ORDER BY column: the ids in ascending order of the column, rows of the
\* same value in the order of the scan.
OrderBy(t, ids, column) ==
  IF ids = {} THEN <<>>
  ELSE LET m == CHOOSE i \in ids : \A j \in ids :
                  /\ Leq(t[i][column], t[j][column])
                  /\ t[i][column] = t[j][column] => i <= j
       IN <<m>> \o OrderBy(t, ids \ {m}, column)

\* SELECT {column} ...: rows of one field.
ColumnOf(t, order, column) == [k \in 1..Len(order) |-> <<t[order[k]][column]>>]

\* SELECT DISTINCT {column}: one row for each value.
DistinctIds(t, column) ==
  { i \in DOMAIN t : \A j \in DOMAIN t : t[j][column] = t[i][column] => i <= j }

\* f"... WHERE {column}=('{value}') ...": the value is pasted into the text of
\* the statement between two apostrophes, so an apostrophe in it ends the
\* literal there, and what follows it (here: letters) is not SQL.
HasApostrophe(value) == \E k \in DOMAIN Chars(value) : Chars(value)[k] = "'"

Ok(rows) == [ok |-> TRUE, rows |-> rows]

SqlError == [ok |-> FALSE, rows |-> <<>>]

\* The SELECT of each streaming read; "*" is a select list but not a term of
\* ORDER BY, and a table or column the file does not have is an SQL error.
Select(op, args) ==
  IF args.table \notin tables \/ args.column \notin Columns(args.table)
  THEN SqlError
  ELSE LET t == Table(args.table)
       IN CASE op = "return_all_entries" ->
                 Ok(ColumnOf(t, OrderBy(t, DOMAIN t, args.column), args.column))
            [] op = "return_distinct_entries" ->
                 Ok(ColumnOf(t, OrderBy(t, DistinctIds(t, args.column), args.column),
                             args.column))
            [] op = "filter_entries" ->
                 IF HasApostrophe(args.value) THEN SqlError
                 ELSE Ok(RowsOf(t, OrderBy(t, Matching(t, args.column, args.value),
                                           args.column)))

\* Calling a generator function runs none of its body.
NewGen(op, args, count) ==
  [state |-> "created", op |-> op, args |-> args, count |-> count,
   results |-> <<>>, yielded |-> <<>>, maxfetch |-> 0, failed |-> FALSE]

Generator == [kind |-> "generator"]

Iterating == gen.state \in {"created", "suspended"}

CreateGen(op, args, count) ==
  /\ pc = "idle"
  /\ gen' = NewGen(op, args, count)
  /\ last' = Done(op, args, FALSE)
  /\ ret' = Generator
  /\ UNCHANGED <<media, genres, media_types, pc, pre, tables, cursor, conns>>

return_all_entries(table, column, count) ==
  CreateGen("return_all_entries", [table |-> table, column |-> column], count)

return_distinct_entries(table, column, count) ==
  CreateGen("return_distinct_entries", [table |-> table, column |-> column], count)

filter_entries(table, column, value, count) ==
  CreateGen("filter_entries", [table |-> table, column |-> column, value |-> value], count)

\* The caller pulls a row: the body of the generator runs to its next yield or
\* to its end.  The first pull executes the SELECT on the shared cursor; when
\* the chunk in `results` is used up, fetchmany(count) takes the next one from
\* whatever the cursor holds; an empty chunk ends the loop.  An error of the
\* SELECT is logged and ends the generator with nothing yielded.
next_row(fault) ==
  /\ pc = "idle"
  /\ Iterating
  /\ LET first == gen.state = "created"
         stmt == IF first THEN Select(gen.op, gen.args) ELSE Ok(cursor)
         failed == first /\ (fault \/ ~stmt.ok)
         cur == IF failed THEN <<>> ELSE stmt.rows
         fetch == gen.results = <<>>
         n == Min({gen.count, Len(cur)})
         chunk == IF fetch THEN SubSeq(cur, 1, n) ELSE gen.results
     IN /\ cursor' = IF fetch THEN SubSeq(cur, n + 1, Len(cur)) ELSE cur
        /\ gen' = IF chunk = <<>>
                  THEN [gen EXCEPT !.state = "done", !.failed = failed]
                  ELSE [gen EXCEPT !.state = "suspended",
                                   !.results = Tail(chunk),
                                   !.yielded = Append(@, Head(chunk)),
                                   !.maxfetch = IF fetch /\ n > @ THEN n ELSE @]
  /\ UNCHANGED <<media, genres, media_types, pc, pre, last, ret, tables, conns>>

\* The caller stops pulling (break, or the generator is dropped): GeneratorExit
\* is raised at the yield and leaves the with block; nothing touches the
\* cursor, whose statement stays open if rows are left in it.
close_generator ==
  /\ pc = "idle"
  /\ gen.state = "suspended"
  /\ gen' = [gen EXCEPT !.state = "closed", !.results = <<>>]
  /\ UNCHANGED <<media, genres, media_types, pc, pre, last, ret, tables, cursor, conns>>

Summary(total, items) == [kind |-> "summary", total |-> total, items |-> items]

RECURSIVE CountLoop(_, _, _, _)
\* The for loop of count_entries over return_distinct_entries("media",
\* "media_type"), chunks of DefaultCount: cur is what the shared cursor holds,
\* results the chunk of the generator.  The body of the loop executes its
\* SELECT COUNT(*) on the same cursor and fetches its one row, which leaves
\* the cursor with nothing for the generator's next fetchmany.
CountLoop(t, cur, results, items) ==
  LET n == Min({DefaultCount, Len(cur)})
      chunk == IF results = <<>> THEN SubSeq(cur, 1, n) ELSE results
      type == Head(chunk)[1]
      counted == <<Cardinality(Matching(t, "media_type", type))>>
      left == Tail(<<counted>>)
  IN IF chunk = <<>> THEN items
     ELSE CountLoop(t, left, Tail(chunk), Append(items, <<type, counted[1]>>))

\* count_entries: the total, then an item for each row the nested generator
\* yields.
count_entries(fault) ==
  /\ pc = "idle"
  /\ LET bad == fault \/ "media" \notin tables
         distinct == ColumnOf(media, OrderBy(media, DistinctIds(media, "media_type"),
                                            "media_type"), "media_type")
     IN /\ ret' = IF bad THEN None
                  ELSE Summary(Cardinality(DOMAIN media),
                               CountLoop(media, distinct, <<>>, <<>>))
        /\ last' = Done("count_entries", <<>>, bad)
  /\ cursor' = <<>>
  /\ UNCHANGED <<media, genres, media_types, pc, pre>>
  /\ UNCHANGED rest

\* ------------------------------------------------- the main window (MDB)

\* The title box is empty.
NoTitleNever(e) == FALSE

NoTitle(e) == e.title = ""

\* MDB.add_entry: no title, the "No Title" message box and nothing else; a
\* title an entry has, a message box; otherwise add_entry, then clear_ui
\* (which drops the selection and reloads the lists).
MDB_add_entry(e) ==
  IF NoTitle(e)
  THEN pc = "idle" /\ dialog' = "No Title" /\ UNCHANGED <<database, current_entry>>
  ELSE IF ExistsResult(Matching(media, "title", e.title)) = Bool(TRUE)
       THEN /\ check_if_entry_exists("media", "title", e.title, FALSE)
            /\ dialog' = "Entry already exists!"
            /\ UNCHANGED current_entry
       ELSE add_entry(e, FALSE) /\ current_entry' = None /\ UNCHANGED dialog

\* MDB.display_info: the row of the title selected in the list becomes
\* current_entry.
display_info(title) ==
  /\ \E i \in DOMAIN media : media[i].title = title
  /\ select_one_entry("media", "title", title, FALSE)
  /\ current_entry' = ret'
  /\ UNCHANGED dialog

\* MDB.update_entry: update_entry on the id of current_entry with the fields
\* of the input boxes, whatever the title in them, then clear_ui; with no
\* selection current_entry[0] raises into the handler's own except.
MDB_update_entry(e) ==
  IF current_entry = None
  THEN pc = "idle" /\ UNCHANGED vars
  ELSE /\ update_entry("media", current_entry.val.id, e, FALSE)
       /\ current_entry' = None
       /\ UNCHANGED dialog

\* MDB.delete_entry: the "Delete entry?" question (with no selection its text
\* cannot be formatted, and nothing happens); on Yes, delete_entry is given
\* current_entry[0], the id alone; it raises, and clear_ui is not reached.
MDB_delete_entry(choice) ==
  IF current_entry = None
  THEN pc = "idle" /\ UNCHANGED vars
  ELSE /\ dialog' = "Delete entry?"
       /\ IF choice = "No"
          THEN pc = "idle" /\ UNCHANGED <<database, current_entry>>
          ELSE delete_entry(IntArg(current_entry.val.id), FALSE) /\ UNCHANGED current_entry

\* MDB.closeEvent: the "Quit?" question; on Yes the handler of the main window
\* is closed and the application ends; on No nothing happens.
closeEvent(choice) ==
  /\ pc = "idle"
  /\ dialog' = "Quit?"
  /\ IF choice = "Yes"
     THEN close("MDB") /\ pc' = "quit" /\ UNCHANGED current_entry
     ELSE UNCHANGED <<database, current_entry>>

\* ------------------------------------------------------- specifications

\* The `entry` arguments: the shell passes a row it has read from the table
\* (or, to delete_entry, a bare id; or None when nothing is selected); a row
\* whose id no row has stands for a stale selection.
NameAt(t, i, column, default) == IF i \in DOMAIN t THEN t[i][column] ELSE default

EntryArgs ==
  { RowArg(i, NameAt(media, i, "title", "Dune")) : i \in Ids } \cup { IntArg(i) : i \in DOMAIN media }

GenreArgs == { RowArg(i, NameAt(genres, i, "genre", "Action")) : i \in Ids } \cup {NoneArg}

MediaTypeArgs == { RowArg(i, NameAt(media_types, i, "type", "DVD")) : i \in Ids } \cup {NoneArg}

\* One call of (or, for the two deletes of a classification, one commit of)
\* a handler, each statement failing or not as F allows, update_entry on a
\* table of T.
Step(F, T) ==
  \/ \E e \in EntryInputs, f \in F : add_entry(e, f) /\ UNCHANGED shell
  \/ \E a \in EntryArgs, f \in F : delete_entry(a, f) /\ UNCHANGED shell
  \/ \E t \in T, i \in Ids, e \in EntryInputs, f \in F : update_entry(t, i, e, f) /\ UNCHANGED shell
  \/ \E g \in GenreInputs, f \in F : add_genre(g, f) /\ UNCHANGED shell
  \/ \E i \in Ids, g \in GenreInputs, f \in F : update_genre(i, g, f) /\ UNCHANGED shell
  \/ \E a \in GenreArgs, f \in F : delete_genre_convert(a, f) /\ UNCHANGED shell
  \/ \E f \in F : delete_genre_delete(f) /\ UNCHANGED shell
  \/ \E t \in MediaTypeInputs, f \in F : add_media_type(t, f) /\ UNCHANGED shell
  \/ \E i \in Ids, t \in MediaTypeInputs, f \in F : update_media_type(i, t, f) /\ UNCHANGED shell
  \/ \E a \in MediaTypeArgs, f \in F : delete_media_type_convert(a, f) /\ UNCHANGED shell
  \/ \E f \in F : delete_media_type_delete(f) /\ UNCHANGED shell

\* The storage engine never fails a well-formed statement.
Next == Step({FALSE}, {"media"})

\* Any statement may fail (file locked, disk I/O error), and update_entry may
\* be given a table that has no such columns (an SQL error).
NextFault == Step(BOOLEAN, {"media", "genres"})

\* (table, column, value) of select_one_entry and check_if_entry_exists: the
\* name column of each table, and a column the table does not have.
ReadKeys ==
  ({<<"media", "title">>} \X Titles)
    \cup ({<<"genres", "genre">>} \X GenreNames)
    \cup ({<<"media_types", "type">>} \X MediaTypeNames)
    \cup {<<<<"genres", "title">>, "Dune">>}

Queries == {"", "%", "_", "dune", "SCI", "x"}

\* The adds and the reads.
NextRead ==
  \/ \E e \in EntryInputs \cup {OtherEntry} : add_entry(e, FALSE) /\ UNCHANGED shell
  \/ \E g \in GenreInputs : add_genre(g, FALSE) /\ UNCHANGED shell
  \/ \E t \in MediaTypeInputs : add_media_type(t, FALSE) /\ UNCHANGED shell
  \/ \E k \in ReadKeys : select_one_entry(k[1][1], k[1][2], k[2], FALSE) /\ UNCHANGED shell
  \/ \E k \in ReadKeys : check_if_entry_exists(k[1][1], k[1][2], k[2], FALSE) /\ UNCHANGED shell
  \/ \E q \in Queries, c \in {NoColumn, "title"} : search(q, c, FALSE) /\ UNCHANGED shell

\* (table, column) of return_all_entries.
AllKeys ==
  {<<"media", "title">>, <<"media", "media_type">>, <<"media", "*">>,
   <<"media_types", "type">>}

DistinctKeys == {<<"media", "media_type">>, <<"media", "title">>}

\* (column, value) of filter_entries on media.
FilterKeys ==
  {<<"title", "Dune">>, <<"title", "O'Brien">>, <<"media_type", "DVD">>,
   <<"genre", "Action">>}

StreamEntries == EntryInputs \cup {OtherEntry, QuoteEntry}

\* The adds and the streaming reads, each iterated with no other call of the
\* store before it has ended or the caller has dropped it.
NextStream ==
  \/ \E e \in StreamEntries : ~Iterating /\ add_entry(e, FALSE) /\ UNCHANGED shell
  \/ \E t \in MediaTypeInputs : ~Iterating /\ add_media_type(t, FALSE) /\ UNCHANGED shell
  \/ \E k \in AllKeys, n \in Counts : ~Iterating /\ return_all_entries(k[1], k[2], n) /\ UNCHANGED shell
  \/ \E k \in DistinctKeys, n \in Counts : ~Iterating /\ return_distinct_entries(k[1], k[2], n) /\ UNCHANGED shell
  \/ \E k \in FilterKeys, n \in Counts : ~Iterating /\ filter_entries("media", k[1], k[2], n) /\ UNCHANGED shell
  \/ next_row(FALSE) /\ UNCHANGED shell
  \/ close_generator /\ UNCHANGED shell
  \/ ~Iterating /\ count_entries(FALSE) /\ UNCHANGED shell

\* create_tables, complete or cut short by a failure, and the adds; an INSERT
\* into a table the file does not have is an SQL error.
NextSchema ==
  \/ \E k \in 0..Len(CreateOrder) : create_tables(k) /\ UNCHANGED shell
  \/ \E e \in EntryInputs : add_entry(e, "media" \notin tables) /\ UNCHANGED shell
  \/ \E g \in GenreInputs : add_genre(g, "genres" \notin tables) /\ UNCHANGED shell
  \/ \E t \in MediaTypeInputs : add_media_type(t, "media_types" \notin tables) /\ UNCHANGED shell

\* (column, old_value, new_value) of convert_entries: the Entries Converter
\* offers the genres (media types) of the entries as old and those of the
\* genres (media_types) table as new.
ConvertKeys ==
  ({"genre"} \X {"Action", "Sci-Fi"} \X GenreNames)
    \cup ({"media_type"} \X {"Blu-ray", "DVD"} \X MediaTypeNames)

\* The adds and convert_entries.
NextConvert ==
  \/ \E e \in EntryInputs \cup {OtherEntry} : add_entry(e, FALSE) /\ UNCHANGED shell
  \/ \E g \in GenreInputs : add_genre(g, FALSE) /\ UNCHANGED shell
  \/ \E k \in ConvertKeys : convert_entries_call(k[1], k[2], k[3], FALSE) /\ UNCHANGED shell

\* What the user types into the input boxes: the field tuples, and one
\* without a title.
ShellEntries == EntryInputs \cup {OtherEntry, [OtherEntry EXCEPT !.title = ""]}

Choices == {"Yes", "No"}

\* What the user does in the main window.
NextShell ==
  \/ \E e \in ShellEntries : MDB_add_entry(e)
  \/ \E t \in Titles : display_info(t)
  \/ \E e \in ShellEntries : MDB_update_entry(e)
  \/ \E c \in Choices : MDB_delete_entry(c)
  \/ \E c \in Choices : closeEvent(c)

\* The Add button and the list of the main window, and add_entry of the
\* store called by any other client with the same field tuples.
NextValidate ==
  \/ \E e \in ShellEntries : MDB_add_entry(e)
  \/ \E t \in Titles \cup {""} : display_info(t)
  \/ \E e \in ShellEntries : add_entry(e, FALSE) /\ UNCHANGED shell

\* (table, column, value) of the reads a caller makes between two pulls.
SharedKeys ==
  {<<"media", "title", "Dune">>, <<"media", "genre", "Action">>,
   <<"media", "media_type", "DVD">>}

\* The caller may make another read now.
MayRead == IF Iterating THEN Len(gen.yielded) < MaxYield ELSE TRUE

\* The adds, the streaming reads, and the other reads of the same handler,
\* which the caller may make between two pulls of a generator.
NextShared ==
  \/ \E e \in EntryInputs \cup {OtherEntry} : ~Iterating /\ add_entry(e, FALSE) /\ UNCHANGED shell
  \/ \E k \in AllKeys \ {<<"media", "*">>}, n \in Counts : ~Iterating /\ return_all_entries(k[1], k[2], n) /\ UNCHANGED shell
  \/ \E n \in Counts : ~Iterating /\ return_distinct_entries("media", "media_type", n) /\ UNCHANGED shell
  \/ \E n \in Counts : ~Iterating /\ filter_entries("media", "genre", "Action", n) /\ UNCHANGED shell
  \/ next_row(FALSE) /\ UNCHANGED shell
  \/ \E k \in SharedKeys : MayRead /\ select_one_entry(k[1], k[2], k[3], FALSE) /\ UNCHANGED shell
  \/ \E k \in SharedKeys : MayRead /\ check_if_entry_exists(k[1], k[2], k[3], FALSE) /\ UNCHANGED shell
  \/ MayRead /\ count_entries(FALSE) /\ UNCHANGED shell

\* close() has returned on the handler of the main window.
Closed == "MDB" \notin conns

\* A statement on a closed connection always executes.
ProgrammingErrorNever == FALSE

\* sqlite3.ProgrammingError, "Cannot operate on a closed database.": what
\* `with self.connection:` and every cursor method raise once close() has run.
ProgrammingError == Closed

\* The rows a caller holds and passes as `entry` to the deletes.
ClosedArgs(t, column) == { RowArg(i, t[i][column]) : i \in DOMAIN t }

\* The genre this handler is given.
ClosedGenres == { g \in GenreInputs : g.genre = "Action" }

\* One handler: the adds and the streaming reads, close(), and after close()
\* every operation of the handler.
NextClosed ==
  \/ pc = "idle" /\ close("MDB") /\ UNCHANGED pc /\ UNCHANGED shell
  \/ \E k \in 0..Len(CreateOrder) : Closed /\ (k = 0 <=> ProgrammingError) /\ create_tables(k) /\ UNCHANGED shell
  \/ \E e \in EntryInputs : ~Iterating /\ add_entry(e, ProgrammingError) /\ UNCHANGED shell
  \/ \E a \in ClosedArgs(media, "title") : Closed /\ delete_entry(a, ProgrammingError) /\ UNCHANGED shell
  \/ \E i \in DOMAIN media, e \in EntryInputs : Closed /\ update_entry("media", i, e, ProgrammingError) /\ UNCHANGED shell
  \/ \E g \in ClosedGenres : ~Iterating /\ add_genre(g, ProgrammingError) /\ UNCHANGED shell
  \/ \E i \in DOMAIN genres, g \in ClosedGenres : Closed /\ update_genre(i, g, ProgrammingError) /\ UNCHANGED shell
  \/ \E a \in ClosedArgs(genres, "genre") : Closed /\ delete_genre_convert(a, ProgrammingError) /\ UNCHANGED shell
  \/ Closed /\ delete_genre_delete(ProgrammingError) /\ UNCHANGED shell
  \/ \E t \in MediaTypeInputs : ~Iterating /\ add_media_type(t, ProgrammingError) /\ UNCHANGED shell
  \/ \E i \in DOMAIN media_types, t \in MediaTypeInputs : Closed /\ update_media_type(i, t, ProgrammingError) /\ UNCHANGED shell
  \/ \E a \in ClosedArgs(media_types, "type") : Closed /\ delete_media_type_convert(a, ProgrammingError) /\ UNCHANGED shell
  \/ Closed /\ delete_media_type_delete(ProgrammingError) /\ UNCHANGED shell
  \/ \E k \in ConvertKeys : Closed /\ convert_entries_call(k[1], k[2], k[3], ProgrammingError) /\ UNCHANGED shell
  \/ \E k \in SharedKeys : Closed /\ select_one_entry(k[1], k[2], k[3], ProgrammingError) /\ UNCHANGED shell
  \/ \E k \in SharedKeys : Closed /\ check_if_entry_exists(k[1], k[2], k[3], ProgrammingError) /\ UNCHANGED shell
  \/ Closed /\ search("dune", NoColumn, ProgrammingError) /\ UNCHANGED shell
  \/ Closed /\ count_entries(ProgrammingError) /\ UNCHANGED shell
  \/ ~Iterating /\ return_all_entries("media", "title", MaxId) /\ UNCHANGED shell
  \/ ~Iterating /\ return_distinct_entries("media", "media_type", MaxId) /\ UNCHANGED shell
  \/ ~Iterating /\ filter_entries("media", "genre", "Action", MaxId) /\ UNCHANGED shell
  \/ next_row(ProgrammingError) /\ UNCHANGED shell

Spec == Init /\ [][Next]_vars

SpecClosed == Init /\ [][NextClosed]_vars

SpecShared == Init /\ [][NextShared]_vars

SpecValidate == Init /\ [][NextValidate]_vars

SpecSchema == InitFile /\ [][NextSchema]_vars

SpecConvert == Init /\ [][NextConvert]_vars

SpecShell == Init /\ [][NextShell]_vars

SpecStream == Init /\ [][NextStream]_vars

SpecRead == Init /\ [][NextRead]_vars

SpecFault == Init /\ [][NextFault]_vars

\* ------------------------------------------------------------ properties

\* The store as the call in progress found it.
CallPre == IF pc = "idle" THEN Store ELSE pre

\* A step that ends a delete_genre (op, table 2) / delete_media_type (op,
\* table 3) called with a row (id, name) of its table.
DeleteOfRowEnds(op, tbl, namecol) ==
  /\ pc = op
  /\ pc' = "idle"
  /\ last.arg.id \in DOMAIN pre[tbl]
  /\ pre[tbl][last.arg.id][namecol] = last.arg.name

\* No entry has the name, every entry that had it has the placeholder, and no
\* row of the table is named name.
DeletedAsClaimed(op, tbl, column, namecol, placeholder) ==
  DeleteOfRowEnds(op, tbl, namecol) =>
    /\ \A i \in DOMAIN media' : media'[i][column] # last.arg.name
    /\ \A i \in DOMAIN pre[1] :
         pre[1][i][column] = last.arg.name =>
           i \in DOMAIN media' /\ media'[i][column] = placeholder
    /\ \A j \in DOMAIN Store'[tbl] : Store'[tbl][j][namecol] # last.arg.name

\* C1 as stated: for any Genre row (id, name), after delete_genre(id, name) no
\* entry has genre = name, every entry that had it has "-DELETED GENRE-", and
\* the genres table has no row named name; the same for media types.
C1_Original ==
  [][ /\ DeletedAsClaimed("delete_genre", 2, "genre", "genre", DeletedGenre)
      /\ DeletedAsClaimed("delete_media_type", 3, "media_type", "type", DeletedMediaType)
    ]_vars

\* Every entry that had the name has the placeholder, no entry has the name
\* (unless it is the placeholder), the row of that id is gone, and a row named
\* name is one that was there, under another id, before.
DeletedById(op, tbl, column, namecol, placeholder) ==
  DeleteOfRowEnds(op, tbl, namecol) =>
    /\ last.arg.name # placeholder =>
         \A i \in DOMAIN media' : media'[i][column] # last.arg.name
    /\ \A i \in DOMAIN pre[1] :
         pre[1][i][column] = last.arg.name =>
           i \in DOMAIN media' /\ media'[i][column] = placeholder
    /\ last.arg.id \notin DOMAIN Store'[tbl]
    /\ \A j \in DOMAIN Store'[tbl] :
         Store'[tbl][j][namecol] = last.arg.name =>
           j \in DOMAIN pre[tbl] \ {last.arg.id} /\ pre[tbl][j][namecol] = last.arg.name

\* C1 amended: after delete_genre(id, name) on a row (id, name) of genres,
\* every entry that had genre = name has "-DELETED GENRE-", no entry has
\* genre = name unless name is the placeholder itself, and genres has no row
\* with that id; a row named name is left only if another row had the same
\* name before the call.  The same for media types.
C1_DeleteClassification ==
  [][ /\ DeletedById("delete_genre", 2, "genre", "genre", DeletedGenre)
      /\ DeletedById("delete_media_type", 3, "media_type", "type", DeletedMediaType)
    ]_vars

\* A delete_genre of a row named other than the placeholder has ended; both
\* entries carry the placeholder, and a second row of that name is still there.
C1_Witness ==
  /\ pc = "idle"
  /\ last.op = "delete_genre"
  /\ last.arg.kind = "row"
  /\ last.arg.name # DeletedGenre
  /\ last.arg.id \notin DOMAIN genres
  /\ \E j \in DOMAIN genres : genres[j].genre = last.arg.name
  /\ Cardinality({ i \in DOMAIN media : media[i].genre = DeletedGenre }) = 2

\* The complete post-state of a delete of entry from table tbl.
FullDelete(snap, entry, tbl, column, placeholder) ==
  [snap EXCEPT ![1] = ConvertRows(snap[1], column, entry.name, placeholder),
               ![tbl] = DeleteRow(snap[tbl], entry.id)]

\* While op runs the file holds the pre-state or the complete post-state.
ObservedWhole(op, tbl, column, namecol, placeholder) ==
  pc = op =>
    /\ Store \in {pre, FullDelete(pre, last.arg, tbl, column, placeholder)}
    /\ ~(media # pre[1] /\ Store[tbl] = pre[tbl])
    /\ ~(media = pre[1] /\ Store[tbl] # pre[tbl])
    /\ (\E i \in DOMAIN media : media[i][column] = last.arg.name) =>
         \/ \E j \in DOMAIN Store[tbl] : Store[tbl][j][namecol] = last.arg.name
         \/ ~ \E j \in DOMAIN pre[tbl] : pre[tbl][j][namecol] = last.arg.name

\* C2: while delete_genre / delete_media_type runs, what the file holds (what a
\* reader on another connection sees) is the complete pre-state or the
\* complete post-state: never the entries rewritten with the row still there,
\* nor the reverse, nor an entry naming a classification that has just gone.
C2_ObserverAtomic ==
  /\ ObservedWhole("delete_genre", 2, "genre", "genre", DeletedGenre)
  /\ ObservedWhole("delete_media_type", 3, "media_type", "type", DeletedMediaType)

\* C3: a call in which a statement failed leaves the three tables as the call
\* found them.
C3_AtomicPerCall == [][ (pc' = "idle" /\ last'.failed) => Store' = CallPre ]_vars

\* What a delete_genre (column genre, other table 3) or delete_media_type
\* (column media_type, other table 2) that ends in this step has left alone.
DeleteFrame(op, column, other) ==
  (last'.op = op /\ pc' = "idle") =>
    /\ DOMAIN media' = DOMAIN CallPre[1]
    /\ \A i \in DOMAIN CallPre[1] :
         IF last'.arg.kind = "row" /\ CallPre[1][i][column] = last'.arg.name
         THEN [media'[i] EXCEPT ![column] = CallPre[1][i][column]] = CallPre[1][i]
         ELSE media'[i] = CallPre[1][i]
    /\ Store'[other] = CallPre[other]

\* C4: delete_genre / delete_media_type delete no entry: the ids of media are
\* as before, an entry that did not have the name is unchanged, an entry that
\* had it differs at most in that column, the other classification table is
\* unchanged.
C4_NeverDeletesEntries ==
  [][ /\ DeleteFrame("delete_genre", "genre", 3)
      /\ DeleteFrame("delete_media_type", "media_type", 2)
    ]_vars

\* A delete_genre has ended with one entry rewritten, one entry of another
\* genre kept, and a media type in its table.
C4_Witness ==
  /\ pc = "idle"
  /\ last.op = "delete_genre"
  /\ last.arg.kind = "row"
  /\ last.arg.id \notin DOMAIN genres
  /\ \E i \in DOMAIN media : media[i].genre = DeletedGenre
  /\ \E i \in DOMAIN media : media[i].genre = "Sci-Fi"
  /\ media_types # EmptyTable

\* C5: update_entry, update_genre and update_media_type with an id no row of
\* the table has change none of the three tables and raise nothing.
C5_UpdateAbsentIsNoOp ==
  [][ \A i \in Ids :
        /\ (i \notin DOMAIN media /\ \E e \in EntryInputs : update_entry("media", i, e, FALSE))
             => (Store' = Store /\ ret' = None)
        /\ (i \notin DOMAIN genres /\ \E g \in GenreInputs : update_genre(i, g, FALSE))
             => (Store' = Store /\ ret' = None)
        /\ (i \notin DOMAIN media_types /\ \E t \in MediaTypeInputs : update_media_type(i, t, FALSE))
             => (Store' = Store /\ ret' = None)
    ]_vars

\* An update_entry for an id no row has was the last call, on a table with a row.
C5_Witness ==
  /\ last.op = "update_entry"
  /\ ~last.failed
  /\ last.arg.rowid \notin DOMAIN media
  /\ media # EmptyTable

\* Table t2 is t with the row of id i replaced by row and nothing else changed.
OnlyRowReplaced(t, t2, i, row) ==
  /\ DOMAIN t2 = DOMAIN t
  /\ t2[i] = row
  /\ \A j \in DOMAIN t \ {i} : t2[j] = t[j]

\* C6: an update of an id a row has leaves that row holding exactly the values
\* given, under the same id, and changes no other row of any table.
C6_UpdateReplacesOneRow ==
  [][ \A i \in Ids :
        /\ \A e \in EntryInputs :
             (i \in DOMAIN media /\ update_entry("media", i, e, FALSE)) =>
               (OnlyRowReplaced(media, media', i, e) /\ UNCHANGED <<genres, media_types>>)
        /\ \A g \in GenreInputs :
             (i \in DOMAIN genres /\ update_genre(i, g, FALSE)) =>
               (OnlyRowReplaced(genres, genres', i, g) /\ UNCHANGED <<media, media_types>>)
        /\ \A t \in MediaTypeInputs :
             (i \in DOMAIN media_types /\ update_media_type(i, t, FALSE)) =>
               (OnlyRowReplaced(media_types, media_types', i, t) /\ UNCHANGED <<media, genres>>)
    ]_vars

\* An update_entry of one of two rows was the last call, and the two rows differ.
C6_Witness ==
  /\ last.op = "update_entry"
  /\ ~last.failed
  /\ last.arg.rowid \in DOMAIN media
  /\ \E j \in DOMAIN media : media[j] # media[last.arg.rowid]

\* C7: delete_entry given a row (id, title) removes the row of that id, if
\* there is one, and changes nothing else.
C7_DeleteEntryRemovesOneRow ==
  [][ \A i \in Ids, n \in Titles :
        delete_entry(RowArg(i, n), FALSE) =>
          /\ DOMAIN media' = DOMAIN media \ {i}
          /\ \A j \in DOMAIN media' : media'[j] = media[j]
          /\ UNCHANGED <<genres, media_types>>
    ]_vars

\* A delete_entry of a row was the last call; its id is gone, another row is left.
C7_Witness ==
  /\ last.op = "delete_entry"
  /\ last.arg.kind = "row"
  /\ last.arg.id \notin DOMAIN media
  /\ media # EmptyTable
  /\ genres # EmptyTable

\* The columns of a row without its id.
Fields(r) == [c \in DOMAIN r \ {"id"} |-> r[c]]

\* select_one_entry on the name column, right after the add of a row.
FindAfterAdd(op, table, column) ==
  /\ last.op = op
  /\ ~last.failed
  /\ select_one_entry(table, column, last.arg[column], FALSE)

\* The row found holds the fields added.
RoundTrip(op, table, column) ==
  FindAfterAdd(op, table, column) =>
    (ret'.kind = "row" /\ Fields(ret'.val) = last.arg)

\* C8 as stated: in every store, a row with the same title in it or not,
\* add_entry followed by select_one_entry on the title returns a row whose
\* fields other than the id are the fields added; the same for add_genre and
\* add_media_type with the name column.
C8_Original ==
  [][ /\ RoundTrip("add_entry", "media", "title")
      /\ RoundTrip("add_genre", "genres", "genre")
      /\ RoundTrip("add_media_type", "media_types", "type")
    ]_vars

\* The row found is the first, in id order, with that title (name); it holds
\* the fields added when it is the only one.
RoundTripFirst(op, table, column) ==
  FindAfterAdd(op, table, column) =>
    LET same == Matching(Table(table), column, last.arg[column])
    IN /\ ret'.kind = "row"
       /\ ret'.val.id \in same
       /\ \A j \in same : ret'.val.id <= j
       /\ Fields(ret'.val) = Table(table)[ret'.val.id]
       /\ Cardinality(same) = 1 => Fields(ret'.val) = last.arg

\* C8 amended: add_entry followed by select_one_entry on the title returns the
\* first row, in id order, that has the title; its fields other than the id
\* are the fields added when no other row has the same title.  The same for
\* add_genre and add_media_type with the name column.
C8_AddThenFindOne ==
  [][ /\ RoundTripFirst("add_entry", "media", "title")
      /\ RoundTripFirst("add_genre", "genres", "genre")
      /\ RoundTripFirst("add_media_type", "media_types", "type")
    ]_vars

\* select_one_entry on a title has returned the row added last, the only one
\* of that title among two rows.
C8_Witness ==
  /\ last.op = "select_one_entry"
  /\ last.arg.table = "media"
  /\ ret.kind = "row"
  /\ Cardinality(DOMAIN media) = 2
  /\ ret.val.id = Max(DOMAIN media)
  /\ Cardinality(Matching(media, "title", last.arg.value)) = 1

\* C9: on a column of the table check_if_entry_exists returns True when a row
\* has the value in that column and False when none has.
C9_ExistsIsExact ==
  (last.op = "check_if_entry_exists" /\ last.arg.column \in Columns(last.arg.table)) =>
    /\ ret.kind = "bool"
    /\ ret.val <=> \E i \in DOMAIN Table(last.arg.table) :
                     Table(last.arg.table)[i][last.arg.column] = last.arg.value

\* check_if_entry_exists has returned False on a table with rows.
C9_Witness ==
  /\ last.op = "check_if_entry_exists"
  /\ last.arg.table = "media"
  /\ media # EmptyTable
  /\ ret = Bool(FALSE)

\* text contains query as a substring, the case of letters ignored.
Contains(text, query) ==
  \E k \in 0..(Len(text) - Len(query)) :
    \A j \in 1..Len(query) : Lower(text[k + j]) = Lower(query[j])

\* C10: search with no column yields each entry whose title, description,
\* genre or notes contains the query text exactly once, and no other entry.
C10_SearchIsSubstringMatch ==
  (last.op = "search" /\ last.arg.column = NoColumn) =>
    /\ ret.kind = "rows"
    /\ \A i \in DOMAIN media :
         Cardinality({ k \in DOMAIN ret.val : ret.val[k].id = i }) =
           IF \E c \in SearchColumns : Contains(Chars(media[i][c]), Chars(last.arg.query))
           THEN 1 ELSE 0

\* The step in which the iteration of a generator of op ends by exhaustion,
\* its SELECT having run.
Exhausts(op) ==
  /\ Iterating
  /\ gen.op = op
  /\ gen'.state = "done"
  /\ ~gen'.failed

\* How many times row is in the sequence.
Times(seq, row) == Cardinality({ k \in DOMAIN seq : seq[k] = row })

\* The values of the one-field rows of seq do not decrease (strict: increase).
Ascending(seq, strict) ==
  \A k \in 1..(Len(seq) - 1) :
    /\ Leq(seq[k][1], seq[k + 1][1])
    /\ strict => seq[k][1] # seq[k + 1][1]

\* C11: return_all_entries (return_distinct_entries), iterated to its end with
\* no other call of the store in between, on a column of the table and with
\* count >= 1: no fetchmany takes more than count rows; every pull yields one
\* row or ends the iteration, and no more rows are yielded than the table has;
\* at the end the sequence yielded holds the column of every row (every
\* distinct value of the column) exactly once, in ascending order.
C11_StreamComplete ==
  [][ /\ gen'.state # "none" => gen'.maxfetch <= gen'.count
      /\ next_row(FALSE) =>
           /\ gen'.state = "done" \/ Len(gen'.yielded) = Len(gen.yielded) + 1
           /\ gen.args.table \in tables =>
                Len(gen'.yielded) <= Cardinality(DOMAIN Table(gen.args.table))
      /\ Exhausts("return_all_entries") =>
           LET t == Table(gen.args.table)
               c == gen.args.column
           IN /\ Len(gen'.yielded) = Cardinality(DOMAIN t)
              /\ \A i \in DOMAIN t :
                   Times(gen'.yielded, <<t[i][c]>>) = Cardinality(Matching(t, c, t[i][c]))
              /\ Ascending(gen'.yielded, FALSE)
      /\ Exhausts("return_distinct_entries") =>
           LET t == Table(gen.args.table)
               c == gen.args.column
           IN /\ \A i \in DOMAIN t : Times(gen'.yielded, <<t[i][c]>>) = 1
              /\ \A k \in DOMAIN gen'.yielded : Matching(t, c, gen'.yielded[k][1]) # {}
              /\ Ascending(gen'.yielded, TRUE)
    ]_vars

\* return_all_entries on title, one row a fetch, has ended: the title of row 2
\* was yielded before the title of row 1.
C11_Witness ==
  /\ gen.state = "done"
  /\ gen.op = "return_all_entries"
  /\ gen.count = 1
  /\ gen.maxfetch = 1
  /\ DOMAIN media = {1, 2}
  /\ gen.yielded = <<<<media[2].title>>, <<media[1].title>>>>
  /\ media[1].title # media[2].title

\* C12: filter_entries, iterated to its end, yields every row of the table
\* whose column equals value exactly once and no other row, whatever the
\* value, an apostrophe in it or not.
C12_FilterIsExact ==
  [][ (Iterating /\ gen.op = "filter_entries" /\ gen'.state = "done") =>
        LET t == Table(gen.args.table)
        IN /\ \A i \in DOMAIN t :
                Times(gen'.yielded, RowOf(t, i)) =
                  IF t[i][gen.args.column] = gen.args.value THEN 1 ELSE 0
           /\ \A k \in DOMAIN gen'.yielded : gen'.yielded[k].id \in DOMAIN t
    ]_vars

\* C13: return_all_entries with column "*", iterated to its end, yields every
\* row of the table, with all of its fields, exactly once.
C13_WildcardFullRows ==
  [][ (Iterating /\ gen.op = "return_all_entries" /\ gen.args.column = "*"
         /\ gen'.state = "done") =>
        LET t == Table(gen.args.table)
        IN /\ Len(gen'.yielded) = Cardinality(DOMAIN t)
           /\ \A i \in DOMAIN t : Times(gen'.yielded, RowOf(t, i)) = 1
    ]_vars

\* C14: count_entries reports the number of rows of media as the total, one
\* item (type, n) for each media_type an entry has, n the number of entries
\* that have it, and no other item.
C14_CountIsExact ==
  (last.op = "count_entries" /\ ~last.failed) =>
    /\ ret.kind = "summary"
    /\ ret.total = Cardinality(DOMAIN media)
    /\ \A i \in DOMAIN media :
         Times(ret.items, <<media[i].media_type,
                            Cardinality(Matching(media, "media_type", media[i].media_type))>>) = 1
    /\ \A k \in DOMAIN ret.items : Matching(media, "media_type", ret.items[k][1]) # {}
    /\ Len(ret.items) = Cardinality({ media[i].media_type : i \in DOMAIN media })

\* C15: create_tables, no statement of it failing, called in any state of the
\* file, leaves exactly the three tables, raises nothing, and leaves every row
\* as it was; called again right after, it changes nothing.
C15_CreateTablesIdempotent ==
  [][ create_tables(Len(CreateOrder)) =>
        /\ tables' = TableNames
        /\ Store' = Store
        /\ ret' = None
        /\ ~last'.failed
        /\ (last.op = "create_tables" /\ ~last.failed) =>
             (tables' = tables /\ Store' = Store)
    ]_vars

\* create_tables has run in full on a file whose three tables have rows.
C15_Witness ==
  /\ last.op = "create_tables"
  /\ ~last.failed
  /\ media # EmptyTable
  /\ genres # EmptyTable
  /\ media_types # EmptyTable

\* C16: no call of the store raises to its caller, whatever the shell passes.
C16_NoExceptionEscapes == ret # Raised

\* C17: under the operations of the main window no two rows of media have
\* the same title.
C17_TitlesUnique ==
  \A i, j \in DOMAIN media : media[i].title = media[j].title => i = j

\* C18: while the application runs exactly one connection to the file is
\* open; after a confirmed quit none is; a declined quit changes neither.
C18_OneConnection ==
  /\ [](pc # "quit" => Cardinality(conns) = 1)
  /\ [](pc = "quit" => conns = {})
  /\ [][closeEvent("No") => UNCHANGED <<conns, pc>>]_vars

\* C19: the statement of a streaming read is open on the cursor only while
\* the caller is iterating: once the iteration has ended, by exhaustion or
\* because the caller stopped pulling, the cursor holds no open statement.
C19_CursorReleased == ~Iterating => cursor = <<>>

\* C20: convert_entries(column, old_value, new_value): every entry whose
\* column was old_value has new_value there, every other entry and every
\* other field is as before, no entry is added or removed, genres and
\* media_types are unchanged, and the same conversion once more would change
\* nothing.
C20_ConvertIsExact ==
  [][ \A k \in ConvertKeys :
        convert_entries_call(k[1], k[2], k[3], FALSE) =>
          /\ DOMAIN media' = DOMAIN media
          /\ \A i \in DOMAIN media :
               /\ media[i][k[1]] = k[2] => media'[i][k[1]] = k[3]
               /\ media[i][k[1]] # k[2] => media'[i] = media[i]
               /\ \A c \in Columns("media") \ {k[1]} : media'[i][c] = media[i][c]
          /\ UNCHANGED <<genres, media_types>>
          /\ ConvertRows(media', k[1], k[2], k[3]) = media'
    ]_vars

\* convert_entries has rewritten the genre of one entry to a name that only a
\* conversion gives it; an entry of another genre and a row of genres are
\* there.
C20_Witness ==
  /\ last.op = "convert_entries"
  /\ last.arg.old_value = "Sci-Fi"
  /\ last.arg.new_value = DeletedGenre
  /\ \E i \in DOMAIN media : media[i].genre = DeletedGenre
  /\ \E i \in DOMAIN media : media[i].genre = "Action"
  /\ genres # EmptyTable

\* C21: deleting through the main window: with an entry selected and the
\* 'Delete entry?' question answered Yes, the row of media with the id of
\* the selected entry is removed and no other row is; answered No, the three
\* tables are as before.
C21_ShellDeleteRemovesSelected ==
  [][ /\ (current_entry # None /\ MDB_delete_entry("Yes")) =>
           /\ media' = DeleteRow(media, current_entry.val.id)
           /\ current_entry.val.id \notin DOMAIN media'
           /\ UNCHANGED <<genres, media_types>>
      /\ (current_entry # None /\ MDB_delete_entry("No")) => UNCHANGED database
    ]_vars

\* C22: an empty title is rejected by the main window before the store is
\* called: its add_entry with an empty title box calls neither
\* check_if_entry_exists nor add_entry of the store (the handler is as it
\* was: no call recorded, nothing returned) and the three tables are
\* unchanged; add_entry of the store validates nothing and appends a row for
\* every title it is given, the empty string included.
C22_EmptyTitleRejectedByShell ==
  [][ \A e \in ShellEntries :
        /\ (e.title = "" /\ MDB_add_entry(e)) =>
             /\ UNCHANGED Store
             /\ UNCHANGED <<last, ret, cursor>>
             /\ dialog' = "No Title"
        /\ (add_entry(e, FALSE) /\ UNCHANGED shell) =>
             /\ \E i \in Ids \ DOMAIN media :
                  /\ DOMAIN media' = DOMAIN media \cup {i}
                  /\ media'[i] = e
             /\ \A i \in DOMAIN media : media'[i] = media[i]
             /\ UNCHANGED <<genres, media_types>>
    ]_vars

\* The store has been given an empty title and has a row of it, and the main
\* window has turned an empty title box down since: the latest call of the
\* store is still that add_entry.
C22_Witness ==
  /\ dialog = "No Title"
  /\ last.op = "add_entry"
  /\ last.arg.title = ""
  /\ \E i \in DOMAIN media : media[i].title = ""

\* A step of delete_genre / delete_media_type (op) that removes the row of
\* its entry from tbl (2: genres, 3: media_types) does so only when the
\* rewrite did not fail and no entry names the row in `column` any more (a
\* row named as the placeholder itself is left out: the rewrite of its
\* entries gives them the name they had).
RemovedOnlyAfterRewrite(op, tbl, column, namecol, placeholder) ==
  LET t == Store[tbl]
      id == last.arg.id
  IN (pc = op /\ id \in DOMAIN t /\ id \notin DOMAIN Store'[tbl]
        /\ t[id][namecol] # placeholder) =>
       /\ ~last.failed
       /\ \A i \in DOMAIN media' : media'[i][column] # t[id][namecol]

\* C23: the row of a classification is removed only after the rewrite has
\* taken effect: in every execution of delete_genre / delete_media_type, the
\* ones in which convert_entries fails included, the row is deleted only if
\* no entry still has its name; after a failed rewrite it is not deleted.
C23_RowRemovedOnlyAfterRewrite ==
  [][ /\ RemovedOnlyAfterRewrite("delete_genre", 2, "genre", "genre", DeletedGenre)
      /\ RemovedOnlyAfterRewrite("delete_media_type", 3, "media_type", "type",
                                 DeletedMediaType)
    ]_vars

\* C24: a streaming sequence is independent of the other calls on the same
\* handler: whatever reads (select_one_entry, check_if_entry_exists,
\* count_entries) the caller makes between two pulls, at the end of the
\* iteration the generator has yielded the rows of its own query, each once
\* and in their order, and no row of another query, for every count.
C24_StreamIndependent ==
  [][ (Iterating /\ gen'.state = "done" /\ ~gen'.failed) =>
        gen'.yielded = Select(gen.op, gen.args).rows
    ]_vars

\* C25: after close() the store is inert: no operation called on the closed
\* handler (the adds, updates, deletes, convert_entries, the reads,
\* count_entries, create_tables, a second close()) raises, each returns None
\* or an empty sequence (a generator that yields nothing when it is
\* iterated), and none changes a table.
C25_InertAfterClose ==
  [][ "MDB" \notin conns =>
        /\ Store' = Store
        /\ ret' # Raised
        /\ ret' \in {None, Rows(<<>>), Generator}
        /\ (gen.state = "created" /\ gen'.state # "created") =>
             /\ gen'.state = "done"
             /\ gen'.yielded = <<>>
    ]_vars

\* On the closed handler, whose tables have rows, a streaming read has been
\* iterated and has yielded nothing, and an add_entry has failed since.
C25_Witness ==
  /\ "MDB" \notin conns
  /\ last.op = "add_entry"
  /\ last.failed
  /\ media # EmptyTable
  /\ genres # EmptyTable
  /\ gen.state = "done"
  /\ gen.yielded = <<>>
  /\ gen.args.table = "media"

====
